---- MODULE Spec2Model ----
(***************************************************************************)
(* Knowledge Base API (src/kb_api.py): document ingestion into named       *)
(* collections, similarity query, delete, stats and listing.               *)
(*                                                                         *)
(* Strings the code inspects character by character (file names and        *)
(* collection names) are sequences of one-character strings.  The storage  *)
(* directory kb_storage is a function from the collection paths that exist *)
(* to the sequence of chunks the index at that path holds.  Each request   *)
(* handler is one action; the calls it makes into the parser, the          *)
(* embedding model and the vector index may fail, which the action draws   *)
(* as a fault.  Single functions (the score conversion, the name check),   *)
(* two uploads handled at once, and the calculator tool                    *)
(* (src/tools/calculator/main.py) have specifications of their own.        *)
(***************************************************************************)
EXTENDS Integers, Sequences, FiniteSets, TLC

\* ------------------------------------------------------------------ bounds
MaxStored == 2          \* chunks the collections hold at most, all together
MaxDocChunks == 2       \* chunks one uploaded document splits into at most
MaxTopK == 2            \* largest top_k a query asks for
MaxDistance == 4        \* largest raw distance the index returns (whole units)
DistDen == 2            \* a distance d stands for the real number d / DistDen

\* ----------------------------------------------------------------- strings
LowerOf(c) ==
  CASE c = "A" -> "a" [] c = "B" -> "b" [] c = "D" -> "d" [] c = "M" -> "m"
    [] c = "T" -> "t" [] c = "X" -> "x" [] c = "P" -> "p" [] c = "F" -> "f"
    [] OTHER -> c

\* str.lower()
lower(s) == [i \in 1..Len(s) |-> LowerOf(s[i])]

\* The characters of the model's alphabet for which str.isalnum() is true.
\* "U+00E9" is the one character e with acute accent: str.isalnum() follows
\* the Unicode categories, so letters and digits outside ASCII count.
AlnumChars == {"a", "b", "c", "d", "k", "o", "A", "B", "1", "2", "U+00E9"}

\* str.isalnum(): non-empty and every character alphanumeric.
isalnum(s) == Len(s) > 0 /\ \A i \in 1..Len(s) : s[i] \in AlnumChars

\* str.replace(c, '')
RemoveChar(s, c) == SelectSeq(s, LAMBDA x : x # c)

\* str.rfind(c): the last index of c in s, 0 when absent (1-based).
rfind(s, c) ==
  IF \E i \in 1..Len(s) : s[i] = c
    THEN CHOOSE i \in 1..Len(s) : s[i] = c /\ \A j \in (i+1)..Len(s) : s[j] # c
    ELSE 0

\* os.path.splitext(p)[1]: the suffix from the last dot of the last path
\* component, empty when that component has no dot or only leading dots.
splitext_ext(p) ==
  LET sepIndex == rfind(p, "/")
      dotIndex == rfind(p, ".")
  IN IF dotIndex > sepIndex
          /\ \E i \in (sepIndex + 1)..(dotIndex - 1) : p[i] # "."
       THEN SubSeq(p, dotIndex, Len(p))
       ELSE <<>>

SUPPORTED_EXTENSIONS ==
  { <<".", "p", "d", "f">>, <<".", "t", "x", "t">>, <<".", "m", "d">>,
    <<".", "d", "o", "c", "x">> }

CHROMA_BASE_DIR == "kb_storage"

get_collection_path(collection_name) == <<CHROMA_BASE_DIR, collection_name>>

\* upload_document's extension check: file_ext, and whether it is supported.
FileExt(filename) == lower(splitext_ext(filename))

\* The extension check as a check that there is an extension at all.
ExtSupported_any(filename) == FileExt(filename) # <<>>

ExtSupported(filename) == FileExt(filename) \in SUPPORTED_EXTENSIONS

\* upload_document's collection-name check.
NameAccepted(collection) ==
  isalnum(RemoveChar(RemoveChar(collection, "_"), "-"))

\* ------------------------------------------------------------------ inputs
Filenames ==
  { <<"a", ".", "t", "x", "t">>, <<"b", ".", "M", "D">>,
    <<"a", ".", "p", "y">>, <<".", "t", "x", "t">> }

Names ==
  { <<"d", "o", "c">>, <<"k", "_", "b">>, <<"a", " ", "b">> }

\* What the loader and text_splitter produce from an upload: the chunk texts
\* (text i is the integer i), possibly none.
Docs == { [i \in 1..n |-> i] : n \in 0..MaxDocChunks }

Paths == { get_collection_path(n) : n \in Names }

\* The name "..": delete_collection takes any path segment as the name, and
\* kb_storage/.. is the directory that holds kb_storage.
ParentName == <<".", ".">>
ParentPath == get_collection_path(ParentName)
DeleteNames == Names \cup {ParentName}

\* ------------------------------------------------------------------- state
VARIABLES
  storage,   \* path -> [exists, docs]: the directory and the chunks its index holds
  leaked,    \* a scratch file outlived the upload that wrote it
  resp,      \* the last request and its response
  scored,    \* the distances and scores of the score check (SpecScore)
  named,     \* the collection name of the name check (SpecName)
  reqs,      \* the uploads in flight of the concurrent handling (SpecRace)
  calc       \* the request and response of the calculator tool (SpecCalc)

vars == <<storage, leaked, resp, scored, named, reqs, calc>>

\* the variables of the checks of single functions, which no request touches
side == <<scored, named, reqs, calc>>

Min(a, b) == IF a < b THEN a ELSE b
Max(a, b) == IF a > b THEN a ELSE b

Absent == [exists |-> FALSE, docs |-> <<>>]

\* What the file system has at a path: a collection path as storage has it;
\* kb_storage/.. always exists and is no index.
stat(fs, path) ==
  IF path = ParentPath THEN [exists |-> TRUE, docs |-> <<>>] ELSE fs[path]

\* The existence check as a check that the collection holds chunks.
path_exists_nonempty(fs, path) ==
  stat(fs, path).exists /\ Len(stat(fs, path).docs) > 0

\* os.path.exists(collection_path)
path_exists(fs, path) == stat(fs, path).exists

\* collection.count()
count(fs, path) == Len(stat(fs, path).docs)

\* A response: the fields of every handler's answer, and what the call did.
\*   status, detail, inner : HTTP status, the detail's fixed text, and the
\*                           text of the caught exception the detail embeds
\*   io                    : the storage accesses the call made
\*   fault, stage          : the call that raised, the step an upload ended in
\*   started, scratch      : the scratch file was created / still exists
\*   top_k, answer         : a query's top_k and what the index answered
\*   entries, skipped      : what list found in kb_storage, and passed over
Response(op, name) ==
  [ op |-> op, name |-> name, status |-> 200, detail |-> "", inner |-> "",
    io |-> {}, fault |-> "none", stage |-> "", started |-> FALSE,
    scratch |-> FALSE,
    chunks_added |-> 0, filename |-> <<>>,
    top_k |-> 0, answer |-> <<>>, documents |-> <<>>, count |-> 0,
    total_chunks |-> 0, source_files |-> <<>>, file_count |-> 0,
    entries |-> {}, skipped |-> {}, listing |-> {} ]

NoResponse == Response("none", <<>>)

\* --------------------------------------------------------- upload_document
\* A chunk stored as the splitter made it, without the collection it goes to.
Chunk_unowned(text, filename, collection) ==
  [ page_content |-> text, metadata |-> [source_file |-> filename] ]

\* A chunk with the provenance upload_document attaches before storing it
\* (the uploaded_at timestamp is not modelled).
Chunk(text, filename, collection) ==
  [ page_content |-> text,
    metadata |-> [source_file |-> filename, collection |-> collection] ]

\* chunks after the metadata loop of upload_document
TagChunks(doc, filename, collection) ==
  [i \in 1..Len(doc) |-> Chunk(doc[i], filename, collection)]

\* add_documents as an overwrite: the batch replaces what the index held.
add_documents_overwrite(docs, chunks) == chunks

\* vectordb.add_documents(chunks): the index appends; ids are fresh, so a
\* chunk equal to a stored one is stored again.
add_documents(docs, chunks) == docs \o chunks

\* Chroma.from_documents(...): a new index at the path holding the chunks.
from_documents(chunks) == [exists |-> TRUE, docs |-> chunks]

\* the except clause: any exception raised inside the try block, an
\* HTTPException included, is answered as 500 with the exception's text.
Caught(r, inner) ==
  [r EXCEPT !.status = 500, !.detail = "Error processing document: ",
            !.inner = inner]

UploadFaults == {"none", "tempfile", "copy", "parse", "store"}

\* The checks and the try block of upload_document with its except clause.
\* fault is the call that raises; for a failing storage call, mkdir says
\* whether the new directory was made before the failure and written how many
\* chunks of the batch had been stored.  created: temp_file is set; copied:
\* temp_path is assigned.  resp.stage is the step the call ended in.
upload_try(fs, filename, collection, doc, fault, mkdir, written) ==
  LET r0     == [Response("upload", collection) EXCEPT !.filename = filename]
      path   == get_collection_path(collection)
      chunks == TagChunks(doc, filename, collection)
      same   == [resp |-> r0, storage |-> fs, created |-> FALSE, copied |-> FALSE]
  IN
  IF ~ExtSupported(filename) THEN
    [same EXCEPT !.resp.status = 400, !.resp.detail = "Unsupported file type",
                 !.resp.stage = "ext"]
  ELSE IF ~NameAccepted(collection) THEN
    [same EXCEPT !.resp.status = 400, !.resp.stage = "name",
                 !.resp.detail = "Collection name must contain only letters, numbers, hyphens, and underscores"]
  ELSE IF fault = "tempfile" THEN
    \* NamedTemporaryFile raised: temp_file is still None
    [same EXCEPT !.resp = [Caught(r0, "OSError") EXCEPT !.io = {"tempfile"},
                              !.fault = fault, !.stage = "tempfile"]]
  ELSE
  LET r1 == [r0 EXCEPT !.io = {"tempfile"}, !.started = TRUE] IN
  IF fault = "copy" THEN
    \* copyfileobj raised inside the with block: temp_path is not assigned
    [same EXCEPT !.resp = [Caught(r1, "OSError") EXCEPT !.fault = fault,
                                                        !.stage = "copy"],
                 !.created = TRUE]
  ELSE
  LET made == [same EXCEPT !.created = TRUE, !.copied = TRUE] IN
  IF fault = "parse" THEN
    [made EXCEPT !.resp = [Caught(r1, "loader error") EXCEPT !.fault = fault,
                                                             !.stage = "parse"]]
  ELSE IF Len(chunks) = 0 THEN
    \* raise HTTPException(400, ...) inside the try block
    [made EXCEPT !.resp =
       [Caught(r1, "400: No text could be extracted from the document")
          EXCEPT !.stage = "split"]]
  ELSE
  LET r3 == [r1 EXCEPT !.io = @ \cup {"exists"}] IN
  IF path_exists(fs, path) THEN
    IF fault = "store" THEN
      [made EXCEPT !.resp = [Caught(r3, "index error") EXCEPT
                               !.io = @ \cup {"open"}, !.fault = fault,
                               !.stage = "store"],
                   !.storage[path].docs =
                       add_documents(@, SubSeq(chunks, 1, written))]
    ELSE
      [made EXCEPT !.resp = [r3 EXCEPT !.io = @ \cup {"open"}, !.stage = "done",
                                       !.chunks_added = Len(chunks)],
                   !.storage[path].docs = add_documents(@, chunks)]
  ELSE
    IF fault = "store" THEN
      [made EXCEPT !.resp = [Caught(r3, "index error") EXCEPT
                               !.io = @ \cup {"create"}, !.fault = fault,
                               !.stage = "store"],
                   !.storage[path] =
                       IF mkdir THEN from_documents(SubSeq(chunks, 1, written))
                                ELSE Absent]
    ELSE
      [made EXCEPT !.resp = [r3 EXCEPT !.io = @ \cup {"create"}, !.stage = "done",
                                       !.chunks_added = Len(chunks)],
                   !.storage[path] = from_documents(chunks)]

\* the finally clause removes the scratch file when temp_file is set and
\* os.path.exists(temp_path) holds
ScratchRemoved(created, copied) == created /\ copied

\* upload_document with a finally clause that also removes the collection
\* directory of a failed upload.
upload_document_cleanup(fs, left, filename, collection, doc, fault, mkdir, written) ==
  LET out == upload_try(fs, filename, collection, doc, fault, mkdir, written)
  IN [ resp    |-> [out.resp EXCEPT !.scratch = FALSE],
       storage |-> IF out.resp.status = 200 THEN out.storage
                   ELSE [out.storage EXCEPT ![get_collection_path(collection)] = Absent],
       leaked  |-> left ]

\* One call of upload_document: the try block, then the finally clause.  When
\* temp_file is set and temp_path is not, reading temp_path raises
\* UnboundLocalError, which replaces the HTTPException being raised.
upload_document(fs, left, filename, collection, doc, fault, mkdir, written) ==
  LET out     == upload_try(fs, filename, collection, doc, fault, mkdir, written)
      removed == ScratchRemoved(out.created, out.copied)
      unbound == out.created /\ ~out.copied
      remains == out.created /\ ~removed
  IN [ resp    |-> IF unbound
                     THEN [out.resp EXCEPT !.status = 500, !.inner = "",
                                           !.detail = "Internal Server Error",
                                           !.scratch = remains]
                     ELSE [out.resp EXCEPT !.scratch = remains],
       storage |-> out.storage,
       leaked  |-> left \/ remains ]

\* ---------------------------------------------------------- query_collection
ScoreDivisor == 3

\* Scores are numerators of fractions over ScoreDen.
ScoreDen == ScoreDivisor * DistDen

\* The conversion without the clamp at zero.
score_of_unclamped(d) == ScoreDen - d

\* max(0.0, 1.0 - float(score) / 3.0) for the raw distance d / DistDen, as the
\* numerator of a fraction over ScoreDen.
score_of(d) == Max(0, ScoreDen - d)

\* The raw distances a query of the model can get: none, and the largest.
Distances == { 0, MaxDistance * DistDen }

\* vectordb.similarity_search_with_score(query, k): at most k stored chunks,
\* no chunk twice, each with its distance to the query, nearest first.  The
\* embedding decides which chunks and which distances.
SearchAnswers(docs, k) ==
  LET m == Min(k, Len(docs)) IN
  { [i \in 1..m |-> [doc |-> docs[idx[i]], distance |-> ds[i]]] :
      <<idx, ds>> \in
        { x \in [1..m -> 1..Len(docs)] \X [1..m -> Distances] :
            /\ \A i, j \in 1..m : i # j => x[1][i] # x[1][j]
            /\ \A i, j \in 1..m : i < j => x[2][i] <= x[2][j] } }

\* The list comprehension as one that keeps only the results that score
\* above zero.
FormatResults_filtered(results) ==
  LET kept == SelectSeq(results, LAMBDA r : score_of(r.distance) > 0) IN
  [i \in 1..Len(kept) |->
     [ content  |-> kept[i].doc.page_content,
       metadata |-> kept[i].doc.metadata,
       distance |-> kept[i].distance,
       score    |-> score_of(kept[i].distance) ]]

\* the list comprehension of query_collection
FormatResults(results) ==
  [i \in 1..Len(results) |->
     [ content  |-> results[i].doc.page_content,
       metadata |-> results[i].doc.metadata,
       distance |-> results[i].distance,
       score    |-> score_of(results[i].distance) ]]

QueryFaults == {"none", "open", "search"}

\* One call of query_collection; results is the index's answer.
query_collection(fs, collection, top_k, fault, results) ==
  LET r0   == [Response("query", collection) EXCEPT !.io = {"exists"}]
      path == get_collection_path(collection)
  IN
  IF ~path_exists(fs, path) THEN
    [r0 EXCEPT !.status = 404, !.detail = "Collection not found"]
  ELSE IF fault # "none" THEN
    [r0 EXCEPT !.status = 500, !.detail = "Error querying collection: ",
               !.fault = fault, !.inner = "index error", !.io = @ \cup {"open"}]
  ELSE
    [r0 EXCEPT !.io = @ \cup {"open"},
               !.top_k = top_k, !.answer = results,
               !.documents = FormatResults(results),
               !.count = Len(FormatResults(results))]

\* --------------------------------------------------------- delete_collection
\* rmtree as a removal of the directory's contents that keeps the directory.
rmtree_contents(fs, path) ==
  IF path = ParentPath THEN [p \in DOMAIN fs |-> Absent]
  ELSE [fs EXCEPT ![path].docs = <<>>]

\* shutil.rmtree(collection_path): the directory and all below it; below
\* kb_storage/.. lies kb_storage with every collection.
rmtree(fs, path) ==
  IF path = ParentPath THEN [p \in DOMAIN fs |-> Absent]
  ELSE [fs EXCEPT ![path] = Absent]

DeleteFaults == {"none", "rmtree"}

\* One call of delete_collection; when rmtree fails the directory is still
\* there and kept chunks of its index survive.
delete_collection(fs, collection_name, fault, kept) ==
  LET r0   == [Response("delete", collection_name) EXCEPT !.io = {"exists"}]
      path == get_collection_path(collection_name)
  IN
  IF ~path_exists(fs, path) THEN
    [resp |-> [r0 EXCEPT !.status = 404, !.detail = "Collection not found"],
     storage |-> fs]
  ELSE IF fault = "rmtree" THEN
    [resp |-> [r0 EXCEPT !.status = 500, !.detail = "Error deleting collection: ",
                         !.fault = fault, !.inner = "OSError", !.io = @ \cup {"rmtree"}],
     storage |-> IF path = ParentPath THEN fs
                 ELSE [fs EXCEPT ![path].docs = SubSeq(@, 1, kept)]]
  ELSE
    [resp |-> [r0 EXCEPT !.io = @ \cup {"rmtree"}],
     storage |-> rmtree(fs, path)]

\* ------------------------------------------------------ get_collection_stats
Unknown == <<"u", "n", "k", "n", "o", "w", "n">>

\* The lookup as one that never finds the key.
SourceOf_default(metadata) == Unknown

\* metadata.get('source_file', 'unknown')
SourceOf(metadata) ==
  IF "source_file" \in DOMAIN metadata THEN metadata.source_file ELSE Unknown

\* the source_files dictionary: source -> number of chunks naming it
Tally(docs) ==
  [ src \in { SourceOf(docs[i].metadata) : i \in 1..Len(docs) } |->
      Cardinality({ i \in 1..Len(docs) : SourceOf(docs[i].metadata) = src }) ]

StatsFaults == {"none", "open"}

\* One call of get_collection_stats.
get_collection_stats(fs, collection_name, fault) ==
  LET r0   == [Response("stats", collection_name) EXCEPT !.io = {"exists"}]
      path == get_collection_path(collection_name)
  IN
  IF ~path_exists(fs, path) THEN
    [r0 EXCEPT !.status = 404, !.detail = "Collection not found"]
  ELSE IF fault # "none" THEN
    [r0 EXCEPT !.status = 500, !.detail = "Error getting collection stats: ",
               !.fault = fault, !.inner = "index error", !.io = @ \cup {"open"}]
  ELSE
    [r0 EXCEPT !.io = @ \cup {"open"},
               !.total_chunks = count(fs, path),
               !.source_files = Tally(fs[path].docs),
               !.file_count = Cardinality(DOMAIN Tally(fs[path].docs))]

\* ---------------------------------------------------------- list_collections
\* Entries of kb_storage that are plain files, not made by any request.
StrayFiles == { <<"n", "o", "t", "e", "s">> }

\* os.path.isdir(collection_path): the directories are the collections.
isdir(fs, name) == name \in Names /\ path_exists(fs, get_collection_path(name))

\* os.listdir(CHROMA_BASE_DIR), stray being the plain files lying there
listdir(fs, stray) ==
  { n \in Names : path_exists(fs, get_collection_path(n)) } \cup stray

\* The loop without its try/except: a directory that cannot be opened fails
\* the whole call.
list_collections_failfast(fs, stray, unreadable) ==
  LET dirs == { n \in listdir(fs, stray) : isdir(fs, n) } IN
  IF \E n \in dirs : get_collection_path(n) \in unreadable
    THEN [Response("list", <<>>) EXCEPT
            !.status = 500, !.io = {"listdir", "open"}, !.entries = listdir(fs, stray)]
    ELSE [Response("list", <<>>) EXCEPT
            !.io = {"listdir"} \cup (IF dirs # {} THEN {"open"} ELSE {}),
            !.entries = listdir(fs, stray),
            !.listing = { [name |-> n,
                           document_count |-> count(fs, get_collection_path(n))] :
                          n \in dirs }]

\* One call of list_collections; unreadable are the directories whose index
\* cannot be opened.  skipped are the names the loop logged and passed over.
list_collections(fs, stray, unreadable) ==
  LET dirs     == { n \in listdir(fs, stray) : isdir(fs, n) }
      readable == { n \in dirs : get_collection_path(n) \notin unreadable }
  IN
  [Response("list", <<>>) EXCEPT
     !.io = {"listdir"} \cup (IF dirs # {} THEN {"open"} ELSE {}),
     !.entries = listdir(fs, stray),
     !.skipped = dirs \ readable,
     !.listing = { [name |-> n,
                    document_count |-> count(fs, get_collection_path(n))] :
                   n \in readable }]

\* ------------------------------------------------- tools/calculator/main.py
\* The calculator tool.  An expression is the syntax tree ast.parse makes of
\* it: a leaf [node, n] (Num with its literal, Name, Call) or an operator node
\* [node, op, operand] or [node, op, left, right].
MaxNodes == 3           \* nodes an expression's tree has at most

\* numeric literals; 1e999 is a float literal beyond the largest float
NumLiterals == {"0", "1", "2", "1e999"}

Leaves ==
  { [node |-> "Num", n |-> t] : t \in NumLiterals }
    \cup { [node |-> "Name", n |-> "x"], [node |-> "Call", n |-> "f"] }

UnaryOps == {"USub", "UAdd"}
BinaryOps == {"Add", "Sub", "Mult", "Div", "Pow", "Mod"}

\* the trees with exactly k nodes
RECURSIVE TreesOf(_)
TreesOf(k) ==
  IF k <= 0 THEN {}
  ELSE IF k = 1 THEN Leaves
  ELSE { [node |-> "UnaryOp", op |-> o, operand |-> t] :
           o \in UnaryOps, t \in TreesOf(k - 1) }
       \cup UNION { { [node |-> "BinOp", op |-> o, left |-> l, right |-> r] :
                        o \in BinaryOps, l \in TreesOf(i), r \in TreesOf(k - 1 - i) } :
                    i \in 1..(k - 2) }

Trees == UNION { TreesOf(k) : k \in 1..MaxNodes }

\* Numbers: a fraction n / d with d > 0, an infinity of sign n, not-a-number;
\* Raised is an exception in a number's place, Beyond a power with a
\* fractional exponent, which no tree of the model asks for.
Fin(n, d) == [k |-> "fin", n |-> n, d |-> d, err |-> ""]
Inf(sgn) == [k |-> "inf", n |-> sgn, d |-> 0, err |-> ""]
NaN == [k |-> "nan", n |-> 0, d |-> 0, err |-> ""]
Beyond == [k |-> "beyond", n |-> 0, d |-> 0, err |-> ""]
Raised(e) == [k |-> "raise", n |-> 0, d |-> 0, err |-> e]

\* node.n
LiteralValue(t) ==
  CASE t = "0" -> Fin(0, 1) [] t = "1" -> Fin(1, 1) [] t = "2" -> Fin(2, 1)
    [] t = "1e999" -> Inf(1)

Sign(v) == IF v.n > 0 THEN 1 ELSE IF v.n < 0 THEN -1 ELSE 0
Abs(i) == IF i < 0 THEN -i ELSE i

\* operator.neg
neg(a) == IF a.k \in {"nan", "beyond"} THEN a ELSE [a EXCEPT !.n = -a.n]

\* operator.add
add(a, b) ==
  IF a.k = "nan" \/ b.k = "nan" THEN NaN
  ELSE IF a.k = "inf" /\ b.k = "inf" THEN (IF a.n = b.n THEN a ELSE NaN)
  ELSE IF a.k = "inf" THEN a
  ELSE IF b.k = "inf" THEN b
  ELSE Fin(a.n * b.d + b.n * a.d, a.d * b.d)

\* operator.sub
sub(a, b) == add(a, neg(b))

\* operator.mul
mul(a, b) ==
  IF a.k = "nan" \/ b.k = "nan" THEN NaN
  ELSE IF a.k = "inf" \/ b.k = "inf"
    THEN (IF Sign(a) * Sign(b) = 0 THEN NaN ELSE Inf(Sign(a) * Sign(b)))
  ELSE Fin(a.n * b.n, a.d * b.d)

\* operator.truediv
truediv(a, b) ==
  IF b.k = "fin" /\ b.n = 0 THEN Raised("ZeroDivisionError")
  ELSE IF a.k = "nan" \/ b.k = "nan" THEN NaN
  ELSE IF a.k = "inf" /\ b.k = "inf" THEN NaN
  ELSE IF a.k = "inf" THEN Inf(Sign(a) * Sign(b))
  ELSE IF b.k = "inf" THEN Fin(0, 1)
  ELSE Fin(a.n * b.d * Sign(b), a.d * b.n * Sign(b))

IsInt(v) == v.k = "fin" /\ v.n % v.d = 0
IntOf(v) == v.n \div v.d

RECURSIVE IntPow(_, _)
IntPow(x, e) == IF e <= 0 THEN 1 ELSE x * IntPow(x, e - 1)

\* operator.pow
pow(a, b) ==
  IF b.k = "fin" /\ b.n = 0 THEN Fin(1, 1)
  ELSE IF a.k = "nan" THEN NaN
  ELSE IF b.k = "nan" THEN (IF a.k = "fin" /\ a.n = a.d THEN Fin(1, 1) ELSE NaN)
  ELSE IF b.k = "inf" THEN
    (IF a.k = "fin" /\ Abs(a.n) = a.d THEN Fin(1, 1)
     ELSE IF (b.n > 0) = (a.k = "inf" \/ Abs(a.n) > a.d) THEN Inf(1)
     ELSE Fin(0, 1))
  ELSE IF a.k = "inf" THEN
    (IF IsInt(b) /\ IntOf(b) % 2 = 1
       THEN (IF b.n > 0 THEN a ELSE Fin(0, 1))
       ELSE (IF b.n > 0 THEN Inf(1) ELSE Fin(0, 1)))
  ELSE IF a.n = 0 THEN (IF b.n < 0 THEN Raised("ZeroDivisionError") ELSE Fin(0, 1))
  ELSE IF IsInt(b) THEN
    (IF b.n > 0
       THEN Fin(IntPow(a.n, IntOf(b)), IntPow(a.d, IntOf(b)))
       ELSE Fin(IntPow(a.d * Sign(a), -IntOf(b)), IntPow(a.n * Sign(a), -IntOf(b))))
  ELSE Beyond

SAFE_OPS == {"Add", "Sub", "Mult", "Div", "Pow", "USub"}

\* op(left, right) for the operator SAFE_OPS gives
ApplyOp(op, a, b) ==
  IF a.k = "beyond" \/ b.k = "beyond" THEN Beyond
  ELSE CASE op = "Add" -> add(a, b) [] op = "Sub" -> sub(a, b)
         [] op = "Mult" -> mul(a, b) [] op = "Div" -> truediv(a, b)
         [] op = "Pow" -> pow(a, b)

\* eval_node of safe_eval: the value of the tree, or the exception raised
RECURSIVE eval_node(_)
eval_node(node) ==
  IF node.node = "Num" THEN LiteralValue(node.n)
  ELSE IF node.node = "BinOp" THEN
    IF node.op \notin SAFE_OPS THEN Raised("ValueError: Unsupported operation")
    ELSE LET l == eval_node(node.left) IN
         IF l.k = "raise" THEN l
         ELSE LET r == eval_node(node.right) IN
              IF r.k = "raise" THEN r ELSE ApplyOp(node.op, l, r)
  ELSE IF node.node = "UnaryOp" THEN
    IF node.op \notin SAFE_OPS THEN Raised("ValueError: Unsupported operation")
    ELSE LET v == eval_node(node.operand) IN
         IF v.k = "raise" THEN v ELSE neg(v)
  ELSE Raised("ValueError: Unsupported expression")

\* What a request carries as input['expression']: nothing, the empty string,
\* a string ast.parse rejects, or a string ast.parse makes a tree of.
NoTree == [node |-> "Name", n |-> ""]

CalcRequests ==
  { [kind |-> k, tree |-> NoTree] : k \in {"missing", "empty", "syntax"} }
    \cup { [kind |-> "tree", tree |-> t] : t \in Trees }

\* safe_eval
safe_eval(req) ==
  IF req.kind = "syntax" THEN Raised("SyntaxError") ELSE eval_node(req.tree)

\* the dictionary calculate_endpoint returns; raised: an exception left the
\* endpoint instead
CalcBody(status, error, value) ==
  [raised |-> FALSE, status |-> status, error |-> error, value |-> value]

\* the body of calculate_endpoint: the try block and its except clause
calculate_endpoint(req) ==
  IF req.kind \in {"missing", "empty"}
    THEN CalcBody("error", "No expression provided", Raised(""))
  ELSE LET result == safe_eval(req) IN
       IF result.k = "raise" THEN CalcBody("error", result.err, result)
       ELSE CalcBody("success", "", result)

\* The returned dictionary goes out as JSON, which has no infinity and no
\* not-a-number: for such a value the encoder raises ValueError, after the
\* endpoint's try block was left.
render(body) ==
  IF body.status = "success" /\ body.value.k \in {"inf", "nan"}
    THEN [raised |-> TRUE, status |-> "", error |-> "ValueError", value |-> body.value]
    ELSE body

NoCalc == [phase |-> "off", req |-> [kind |-> "missing", tree |-> NoTree],
           out |-> CalcBody("", "", Raised(""))]

\* ----------------------------------------------------------------- requests
NotScored == [phase |-> "off", d1 |-> 0, d2 |-> 0, s1 |-> 0, s2 |-> 0]
NotNamed == [phase |-> "off", name |-> <<>>, accepted |-> FALSE]

\* the uploads two workers handle at once, and an upload not yet received
Requests == {1, 2}
Idle == [pc |-> "idle", collection |-> <<>>, doc |-> <<>>, seen |-> FALSE]
NoRequests == [r \in Requests |-> Idle]

Init ==
  /\ storage = [p \in Paths |-> Absent]
  /\ leaked = FALSE
  /\ resp = NoResponse
  /\ scored = NotScored
  /\ named = NotNamed
  /\ reqs = NoRequests
  /\ calc = NoCalc

RECURSIVE SumCounts(_, _)
SumCounts(fs, paths) ==
  IF paths = {} THEN 0
  ELSE LET p == CHOOSE x \in paths : TRUE
       IN count(fs, p) + SumCounts(fs, paths \ {p})

\* chunks stored in all collections
TotalStored(fs) == SumCounts(fs, Paths)

\* POST /upload
Upload ==
  \E filename \in Filenames, collection \in Names, doc \in Docs,
     fault \in UploadFaults, mkdir \in BOOLEAN, written \in 0..MaxDocChunks :
    /\ TotalStored(storage) + Len(doc) <= MaxStored
    /\ written <= Len(doc)
    \* inputs no step of the call reads are fixed
    /\ fault # "store" => ~mkdir /\ written = 0
    /\ ~ExtSupported(filename) \/ ~NameAccepted(collection)
         => doc = <<>> /\ fault = "none"
    /\ LET out == upload_document(storage, leaked, filename, collection, doc,
                                  fault, mkdir, written)
       IN /\ storage' = out.storage
          /\ leaked' = out.leaked
          /\ resp' = out.resp
    /\ UNCHANGED side

\* POST /query
Query ==
  \E collection \in Names, top_k \in 1..MaxTopK, fault \in QueryFaults :
    \E results \in SearchAnswers(storage[get_collection_path(collection)].docs, top_k) :
      \* a call that does not reach the search has no answer to draw
      /\ ~path_exists(storage, get_collection_path(collection)) \/ fault # "none"
           => top_k = 1 /\ results = <<>>
      /\ resp' = query_collection(storage, collection, top_k, fault, results)
      /\ UNCHANGED <<storage, leaked, side>>

\* DELETE /collections/{collection_name}
Delete ==
  \E collection_name \in DeleteNames, fault \in DeleteFaults, kept \in 0..MaxStored :
    /\ kept <= count(storage, get_collection_path(collection_name))
    /\ fault = "none" => kept = 0
    /\ LET out == delete_collection(storage, collection_name, fault, kept)
       IN /\ storage' = out.storage
          /\ resp' = out.resp
    /\ UNCHANGED <<leaked, side>>

\* GET /collections/{collection_name}/stats
Stats ==
  \E collection_name \in Names, fault \in StatsFaults :
    /\ resp' = get_collection_stats(storage, collection_name, fault)
    /\ UNCHANGED <<storage, leaked, side>>

\* GET /collections
List ==
  \E stray \in SUBSET StrayFiles,
     unreadable \in SUBSET { p \in Paths : path_exists(storage, p) } :
    /\ resp' = list_collections(storage, stray, unreadable)
    /\ UNCHANGED <<storage, leaked, side>>

Next == Upload \/ Query \/ Delete \/ Stats \/ List

Spec == Init /\ [][Next]_vars

\* ------------------------------------------------------------ score check
\* The distance-to-score conversion alone, on every pair of raw distances up
\* to MaxDistance at the resolution 1 / DistDen.
InitScore ==
  /\ storage = [p \in Paths |-> Absent]
  /\ leaked = FALSE
  /\ resp = NoResponse
  /\ \E d1, d2 \in 0..(MaxDistance * DistDen) :
       scored = [phase |-> "input", d1 |-> d1, d2 |-> d2, s1 |-> 0, s2 |-> 0]
  /\ named = NotNamed
  /\ reqs = NoRequests
  /\ calc = NoCalc

ScoreStep ==
  /\ scored.phase = "input"
  /\ scored' = [scored EXCEPT !.phase = "scored",
                              !.s1 = score_of(scored.d1),
                              !.s2 = score_of(scored.d2)]
  /\ UNCHANGED <<storage, leaked, resp, named, reqs, calc>>

NextScore == ScoreStep

SpecScore == InitScore /\ [][NextScore]_vars

\* ------------------------------------------------------------- name check
\* upload_document's collection-name check alone, on every string of at most
\* MaxNameLen characters over NameAlphabet: an ASCII letter and digit, the
\* underscore and hyphen, a space, and a letter outside ASCII.
MaxNameLen == 3

NameAlphabet == {"a", "1", "_", "-", " ", "U+00E9"}

NameInputs ==
  UNION { [1..n -> NameAlphabet] : n \in 0..MaxNameLen }

InitName ==
  /\ storage = [p \in Paths |-> Absent]
  /\ leaked = FALSE
  /\ resp = NoResponse
  /\ scored = NotScored
  /\ \E name \in NameInputs :
       named = [phase |-> "input", name |-> name, accepted |-> FALSE]
  /\ reqs = NoRequests
  /\ calc = NoCalc

NameStep ==
  /\ named.phase = "input"
  /\ named' = [named EXCEPT !.phase = "checked",
                            !.accepted = NameAccepted(named.name)]
  /\ UNCHANGED <<storage, leaked, resp, scored, reqs, calc>>

NextName == NameStep

SpecName == InitName /\ [][NextName]_vars

\* ------------------------------------------------------ concurrent uploads
\* Two uploads handled at once, each by its own worker on the same
\* kb_storage.  Both passed the checks and were parsed, split and tagged; what
\* is left of upload_document is the existence check and the storage call,
\* which are separate steps: a step of the other upload can come between.
RaceFile(r) == IF r = 1 THEN <<"a", ".", "t", "x", "t">> ELSE <<"b", ".", "M", "D">>

\* upload_document takes no lock: an upload's existence check never waits
\* for another upload.
MayCheck_serial(rs, r) ==
  \A q \in Requests \ {r} : rs[q].pc \notin {"create", "append"}

MayCheck(rs, r) == TRUE

InitRace ==
  /\ storage = [p \in Paths |-> Absent]
  /\ leaked = FALSE
  /\ resp = NoResponse
  /\ scored = NotScored
  /\ named = NotNamed
  /\ reqs = NoRequests
  /\ calc = NoCalc

\* the request arrives and reaches the storage part with its chunks
RaceBegin(r) ==
  /\ reqs[r].pc = "idle"
  /\ \E collection \in { n \in Names : NameAccepted(n) }, doc \in Docs \ {<<>>} :
       reqs' = [reqs EXCEPT ![r] = [pc |-> "check", collection |-> collection,
                                    doc |-> doc, seen |-> FALSE]]
  /\ UNCHANGED <<storage, leaked, resp, scored, named, calc>>

\* if os.path.exists(collection_path): choose the branch
RaceCheck(r) ==
  /\ reqs[r].pc = "check"
  /\ MayCheck(reqs, r)
  /\ LET seen == path_exists(storage, get_collection_path(reqs[r].collection))
     IN reqs' = [reqs EXCEPT ![r].seen = seen,
                             ![r].pc = IF seen THEN "append" ELSE "create"]
  /\ UNCHANGED <<storage, leaked, resp, scored, named, calc>>

\* What Chroma.from_documents does with a directory another upload made in
\* the meantime is not the code's to decide: the batch is merged into the
\* index found there, or replaces it, or the call fails.
RaceOutcomes == {"merged", "replaced", "failed"}

\* the storage call of the branch chosen, and the response
RaceStore(r) ==
  /\ reqs[r].pc \in {"create", "append"}
  /\ \E outcome \in RaceOutcomes :
       LET collection == reqs[r].collection
           path   == get_collection_path(collection)
           chunks == TagChunks(reqs[r].doc, RaceFile(r), collection)
           r0     == [Response("upload", collection) EXCEPT
                        !.filename = RaceFile(r), !.started = TRUE,
                        !.io = {"tempfile", "exists",
                                IF reqs[r].pc = "create" THEN "create" ELSE "open"}]
           ok     == [r0 EXCEPT !.stage = "done", !.chunks_added = Len(chunks)]
           raced  == reqs[r].pc = "create" /\ path_exists(storage, path)
       IN /\ ~raced => outcome = "merged"
          /\ IF reqs[r].pc = "append" \/ (raced /\ outcome = "merged")
               THEN /\ storage' = [storage EXCEPT ![path].docs = add_documents(@, chunks)]
                    /\ resp' = ok
             ELSE IF outcome = "failed"
               THEN /\ storage' = storage
                    /\ resp' = [Caught(r0, "index error") EXCEPT
                                  !.fault = "store", !.stage = "store"]
             ELSE /\ storage' = [storage EXCEPT ![path] = from_documents(chunks)]
                  /\ resp' = ok
  /\ reqs' = [reqs EXCEPT ![r].pc = "done"]
  /\ UNCHANGED <<leaked, scored, named, calc>>

NextRace == \E r \in Requests : RaceBegin(r) \/ RaceCheck(r) \/ RaceStore(r)

SpecRace == InitRace /\ [][NextRace]_vars

\* -------------------------------------------------------- calculator requests
InitCalc ==
  /\ storage = [p \in Paths |-> Absent]
  /\ leaked = FALSE
  /\ resp = NoResponse
  /\ scored = NotScored
  /\ named = NotNamed
  /\ reqs = NoRequests
  /\ \E req \in CalcRequests :
       calc = [phase |-> "input", req |-> req, out |-> CalcBody("", "", Raised(""))]

\* POST /mcp/calculate
Calculate ==
  /\ calc.phase = "input"
  /\ calc' = [calc EXCEPT !.phase = "done",
                          !.out = render(calculate_endpoint(calc.req))]
  /\ UNCHANGED <<storage, leaked, resp, scored, named, reqs>>

NextCalc == Calculate

SpecCalc == InitCalc /\ [][NextCalc]_vars

\* ===================================================================== claims
Dir(n) == stat(storage, get_collection_path(n))

\* total_chunks as get_collection_stats reports it for an existing collection
StatsTotal(fs, n) == get_collection_stats(fs, n, "none").total_chunks

\* [A-Za-z0-9_-]+ over the model's alphabet
PatternChars == {"a", "b", "c", "d", "k", "o", "A", "B", "1", "2", "_", "-"}
MatchesNamePattern(name) ==
  Len(name) > 0 /\ \A i \in 1..Len(name) : name[i] \in PatternChars

InvalidNameDetail ==
  "Collection name must contain only letters, numbers, hyphens, and underscores"

\* the file name ends, compared case-insensitively, with one of the four
\* supported extensions
HasSuffix(s, e) ==
  Len(s) >= Len(e) /\ SubSeq(s, Len(s) - Len(e) + 1, Len(s)) = e
ClaimedSupported(filename) ==
  \E e \in { <<".", "p", "d", "f">>, <<".", "t", "x", "t">>, <<".", "m", "d">>,
             <<".", "d", "o", "c", "x">> } : HasSuffix(lower(filename), e)

\* C1: every successful ingestion into a name raises the total_chunks that
\* stats reports for it by exactly its chunks_added, counting from 0 when the
\* collection did not exist: the first ingestion creates the collection, a
\* later one opens and appends, the chunks already stored stay, and a chunk
\* equal to a stored one is stored again.  Over a sequence of successful
\* ingestions total_chunks is therefore the sum of their chunks_added.
C1_AdditiveIngestion ==
  [][ \A n \in Names :
        (resp'.op = "upload" /\ resp'.name = n /\ resp'.status = 200)
        => LET p      == get_collection_path(n)
               before == IF storage[p].exists THEN StatsTotal(storage, n) ELSE 0
           IN /\ storage'[p].exists
              /\ StatsTotal(storage', n) = before + resp'.chunks_added
              /\ SubSeq(storage'[p].docs, 1, Len(storage[p].docs)) = storage[p].docs
              /\ storage[p].exists <=> "open" \in resp'.io
              /\ ~storage[p].exists <=> "create" \in resp'.io
    ]_vars

\* an ingestion appended to an existing collection a chunk equal to the one
\* it already held
C1_Witness ==
  /\ resp.op = "upload" /\ resp.status = 200 /\ "open" \in resp.io
  /\ Len(Dir(resp.name).docs) = 2
  /\ Dir(resp.name).docs[1] = Dir(resp.name).docs[2]

\* C2: an upload whose document yields zero chunks fails with the no-content
\* error, answered as a rejected upload (status 400), and no collection
\* changes.
C2_NoContentRejected ==
  [][ (resp'.op = "upload" /\ resp'.stage = "split")
      => /\ resp'.status = 400
         /\ resp'.detail = "No text could be extracted from the document"
         /\ storage' = storage
    ]_vars

\* C3: ingest, query, delete and stats reject a name that does not match
\* [A-Za-z0-9_-]+ with the invalid-name error before any storage access (an
\* upload whose extension is rejected first is left aside).
C3_InvalidNameRejected ==
  (/\ resp.op \in {"upload", "query", "delete", "stats"}
   /\ resp.stage # "ext"
   /\ ~MatchesNamePattern(resp.name))
  => /\ resp.status = 400
     /\ resp.detail = InvalidNameDetail
     /\ resp.io = {}

\* C4: when an upload that created its scratch file returns, on any path, the
\* scratch file no longer exists.
C4_ScratchRemoved ==
  (resp.op = "upload" /\ resp.started) => ~resp.scratch

\* C5: an upload whose file name has none of the extensions .pdf, .txt, .md,
\* .docx (case-insensitively) fails with the unsupported-format error whatever
\* the collection name is, and touches no storage: no scratch file, no
\* existence check, no index opened or created, no collection changed.
C5_UnsupportedRejected ==
  [][ (resp'.op = "upload" /\ ~ClaimedSupported(resp'.filename))
      => /\ resp'.status = 400
         /\ resp'.detail = "Unsupported file type"
         /\ resp'.io = {}
         /\ ~resp'.started
         /\ storage' = storage
         /\ leaked' = leaked
    ]_vars

\* an upload with an unsupported extension and an invalid collection name was
\* answered with the unsupported-format error
C5_Witness ==
  /\ resp.op = "upload" /\ resp.status = 400
  /\ resp.detail = "Unsupported file type"
  /\ ~ClaimedSupported(resp.filename)
  /\ ~MatchesNamePattern(resp.name)

\* C6: an upload that fails in steps 1-4 (extension check, name check,
\* persisting and parsing the upload, chunking) leaves the set of collections
\* and the chunks of every collection as they were.
C6_EarlyFailureFrame ==
  [][ (/\ resp'.op = "upload"
       /\ resp'.status # 200
       /\ resp'.stage \in {"ext", "name", "tempfile", "copy", "parse", "split"})
      => storage' = storage
    ]_vars

\* an upload into an existing, non-empty collection failed at chunking
C6_Witness ==
  /\ resp.op = "upload" /\ resp.stage = "split" /\ resp.status # 200
  /\ Dir(resp.name).exists
  /\ Len(Dir(resp.name).docs) > 0

\* C7 as claimed: a successful delete removes an existing collection; while
\* the collection does not exist query and stats on it answer 404 and delete
\* answers 404; and a collection just deleted comes to exist again only by a
\* successful ingestion into it.
C7_DeletedUntilIngested ==
  [][ \A n \in Names :
        LET p == get_collection_path(n) IN
        /\ (resp'.op = "delete" /\ resp'.name = n /\ resp'.status = 200)
           => storage[p].exists /\ ~storage'[p].exists
        /\ (resp'.op \in {"query", "stats", "delete"} /\ resp'.name = n
              /\ ~storage[p].exists)
           => resp'.status = 404
        /\ (/\ resp.op = "delete" /\ resp.name = n /\ resp.status = 200
            /\ ~storage[p].exists /\ storage'[p].exists)
           => resp'.op = "upload" /\ resp'.name = n /\ resp'.status = 200
    ]_vars

\* C7 as amended: a collection that does not exist, one just deleted
\* included, stays absent, with query, stats and delete on it answering 404,
\* until an ingestion into it reaches the storage step, whether that
\* ingestion succeeds or fails after the directory was made.
C7_DeletedUntilStored ==
  [][ \A n \in Names :
        LET p == get_collection_path(n) IN
        /\ (resp'.op = "delete" /\ resp'.name = n /\ resp'.status = 200)
           => storage[p].exists /\ ~storage'[p].exists
        /\ (resp'.op \in {"query", "stats", "delete"} /\ resp'.name = n
              /\ ~storage[p].exists)
           => resp'.status = 404
        /\ (~storage[p].exists /\ storage'[p].exists)
           => /\ resp'.op = "upload" /\ resp'.name = n
              /\ resp'.stage \in {"store", "done"}
    ]_vars

\* a collection was deleted while another one, holding chunks, stayed
C7_Witness ==
  /\ resp.op = "delete" /\ resp.status = 200
  /\ ~Dir(resp.name).exists
  /\ \E n \in Names : Dir(n).exists /\ Len(Dir(n).docs) > 0

\* C8: a query on a collection that does not exist answers 404; a query on a
\* collection that exists and holds no chunks, when the index answers,
\* returns an empty list with count 0.
C8_QueryMissingOrEmpty ==
  resp.op = "query"
  => /\ ~Dir(resp.name).exists => resp.status = 404
     /\ (Dir(resp.name).exists /\ Len(Dir(resp.name).docs) = 0 /\ resp.fault = "none")
        => resp.status = 200 /\ resp.documents = <<>> /\ resp.count = 0

\* a query on an existing collection without chunks returned the empty list
C8_Witness ==
  /\ resp.op = "query" /\ resp.status = 200
  /\ Dir(resp.name).exists /\ Len(Dir(resp.name).docs) = 0
  /\ resp.documents = <<>>

\* C9 as claimed: query and stats answer 404 for a collection that exists
\* and holds zero chunks, as they do for a name without a directory.
C9_EmptyIsNotFound ==
  (/\ resp.op \in {"query", "stats"}
   /\ Dir(resp.name).exists /\ Len(Dir(resp.name).docs) = 0)
  => resp.status = 404

\* C9 as amended: query and stats answer 404 exactly for the names without a
\* storage directory; for a collection that exists and holds zero chunks they
\* answer, when the index can be read, with an empty result list and count 0,
\* and with total_chunks 0, no source files and file_count 0.
C9_EmptyIsFound ==
  resp.op \in {"query", "stats"}
  => /\ resp.status = 404 <=> ~Dir(resp.name).exists
     /\ (/\ Dir(resp.name).exists /\ Len(Dir(resp.name).docs) = 0
         /\ resp.status = 200)
        => /\ resp.count = 0 /\ resp.documents = <<>>
           /\ resp.total_chunks = 0 /\ resp.file_count = 0
           /\ DOMAIN resp.source_files = {}

\* stats on an existing collection without chunks reported total_chunks 0
C9_Witness ==
  /\ resp.op = "stats" /\ resp.status = 200
  /\ Dir(resp.name).exists /\ Len(Dir(resp.name).docs) = 0
  /\ resp.total_chunks = 0

\* C10: the score of every raw distance lies in [0, 1], and of two raw
\* distances the smaller one has the score that is at least as large.
C10_ScoreBoundedMonotone ==
  scored.phase = "scored"
  => /\ 0 <= scored.s1 /\ scored.s1 <= ScoreDen
     /\ 0 <= scored.s2 /\ scored.s2 <= ScoreDen
     /\ scored.d1 < scored.d2 => scored.s1 >= scored.s2

\* two distances were scored: one below the saturation point with a positive
\* score, a larger one beyond it with score 0
C10_Witness ==
  /\ scored.phase = "scored"
  /\ scored.d1 < scored.d2
  /\ scored.d2 > ScoreDivisor * DistDen
  /\ scored.s1 > 0 /\ scored.s2 = 0

\* C11: a successful query returns exactly the pairs the index answered, in
\* the index's order: as many results as the index gave, the i-th result
\* being the i-th chunk of the answer with its raw distance and a score;
\* distances do not decrease and scores do not increase along the list; count
\* is the number of results and is at most top_k.
C11_QueryKeepsIndexAnswer ==
  (resp.op = "query" /\ resp.status = 200)
  => /\ Len(resp.documents) = Len(resp.answer)
     /\ \A i \in 1..Len(resp.documents) :
          /\ {"content", "metadata", "distance", "score"} \subseteq DOMAIN resp.documents[i]
          /\ resp.documents[i].content = resp.answer[i].doc.page_content
          /\ resp.documents[i].metadata = resp.answer[i].doc.metadata
          /\ resp.documents[i].distance = resp.answer[i].distance
     /\ \A i, j \in 1..Len(resp.documents) :
          i < j => /\ resp.documents[i].distance <= resp.documents[j].distance
                   /\ resp.documents[i].score >= resp.documents[j].score
     /\ resp.count = Len(resp.documents)
     /\ resp.count <= resp.top_k

\* a query answered with two chunks, the second farther than the first and
\* scored lower
C11_Witness ==
  /\ resp.op = "query" /\ resp.status = 200
  /\ resp.count = 2 /\ resp.top_k = 2
  /\ resp.documents[1].distance < resp.documents[2].distance
  /\ resp.documents[1].score > resp.documents[2].score
  /\ resp.documents[1].content # resp.documents[2].content

\* C12 as claimed: the name check accepts a collection name exactly when it
\* matches [A-Za-z0-9_-]+, that is when it is non-empty and made only of
\* ASCII letters, digits, hyphens and underscores.
C12_NameCheckIsPattern ==
  named.phase = "checked"
  => (named.accepted <=> MatchesNamePattern(named.name))

\* C13 as claimed: when ingest, query, delete or stats fails because the
\* index could not be opened, written, searched or removed, or the embedding
\* failed, the error the caller gets is generic: its detail embeds no text of
\* the internal exception.
C13_GenericFaultError ==
  (/\ resp.op \in {"upload", "query", "delete", "stats"}
   /\ resp.fault \in {"store", "open", "search", "rmtree"})
  => resp.status = 500 /\ resp.inner = ""

\* C15: list always answers; it reports exactly the storage subdirectories
\* whose index could be opened, each with its chunk count (a directory with
\* zero chunks included), passes over the ones that could not be opened, and
\* reports no entry that is not a directory.
C15_ListFailSoft ==
  resp.op = "list"
  => /\ resp.status = 200
     /\ resp.skipped \subseteq { n \in Names : Dir(n).exists }
     /\ resp.listing =
          { [name |-> n, document_count |-> Len(Dir(n).docs)] :
            n \in { x \in Names : Dir(x).exists } \ resp.skipped }
     /\ \A e \in resp.listing : e.name \notin StrayFiles

\* a listing made while a plain file lay in kb_storage and one directory
\* could not be opened: it reports another directory, which holds no chunks
C15_Witness ==
  /\ resp.op = "list" /\ resp.status = 200
  /\ resp.skipped # {}
  /\ resp.entries \cap StrayFiles # {}
  /\ \E e \in resp.listing : e.document_count = 0 /\ Dir(e.name).exists

\* the source-file histogram stats reports for a collection
Histogram(fs, n) == get_collection_stats(fs, n, "none").source_files

RECURSIVE SumValues(_)
SumValues(h) ==
  IF DOMAIN h = {} THEN 0
  ELSE LET k == CHOOSE x \in DOMAIN h : TRUE
       IN h[k] + SumValues([x \in DOMAIN h \ {k} |-> h[x]])

\* C16: every successful ingestion of a file into a collection raises the
\* histogram entry of that file name by the number of chunks ingested (from 0
\* when the name is new) and leaves the other entries as they were, so that
\* an entry is the total ingested from its file and the entries are the files
\* ingested since the collection was created; and in whatever stats reports,
\* the entries sum to total_chunks and file_count is the number of entries.
C16_StatsHistogram ==
  [][ /\ \A n \in Names :
           (resp'.op = "upload" /\ resp'.name = n /\ resp'.status = 200)
           => LET h    == Histogram(storage, n)
                  hNew == Histogram(storage', n)
                  f    == resp'.filename
              IN /\ DOMAIN hNew = DOMAIN h \cup {f}
                 /\ hNew[f] = (IF f \in DOMAIN h THEN h[f] ELSE 0) + resp'.chunks_added
                 /\ \A g \in DOMAIN h \ {f} : hNew[g] = h[g]
      /\ (resp'.op = "stats" /\ resp'.status = 200)
           => /\ resp'.source_files = Histogram(storage', resp'.name)
              /\ SumValues(resp'.source_files) = resp'.total_chunks
              /\ resp'.total_chunks = Len(storage'[get_collection_path(resp'.name)].docs)
              /\ resp'.file_count = Cardinality(DOMAIN resp'.source_files)
    ]_vars

\* stats on a collection that two files were ingested into reports both
C16_Witness ==
  /\ resp.op = "stats" /\ resp.status = 200
  /\ resp.file_count = 2 /\ resp.total_chunks = 2
  /\ \A f \in DOMAIN resp.source_files : resp.source_files[f] = 1

\* C17: every chunk a collection stores, chunks written by an ingestion that
\* failed midway included, carries a source file name that is not empty and a
\* collection field equal to the name of the collection storing it.
C17_StoredChunksOwned ==
  \A n \in Names : \A i \in 1..Len(Dir(n).docs) :
    LET md == Dir(n).docs[i].metadata IN
    /\ {"source_file", "collection"} \subseteq DOMAIN md
    /\ md.source_file # <<>>
    /\ md.collection = n

\* two collections hold chunks at once, each chunk naming its own collection
C17_Witness ==
  \E n, m \in Names :
    /\ n # m
    /\ Len(Dir(n).docs) > 0 /\ Len(Dir(m).docs) > 0
    /\ Dir(n).docs[1].metadata.collection = n
    /\ Dir(m).docs[1].metadata.collection = m

RECURSIVE OnlyArithmetic(_)
OnlyArithmetic(t) ==
  IF t.node = "Num" THEN TRUE
  ELSE IF t.node = "BinOp"
    THEN /\ t.op \in {"Add", "Sub", "Mult", "Div", "Pow"}
         /\ OnlyArithmetic(t.left) /\ OnlyArithmetic(t.right)
  ELSE IF t.node = "UnaryOp"
    THEN t.op = "USub" /\ OnlyArithmetic(t.operand)
  ELSE FALSE

\* C20 as claimed: no exception leaves the calculator endpoint; every
\* request is answered with status "success" or "error"; a missing or empty
\* expression with "error"; and "success" only for an expression built from
\* numeric literals, + - * / ** and unary minus, any other node giving
\* "error".
C20_AlwaysStatus ==
  calc.phase = "done"
  => /\ ~calc.out.raised
     /\ calc.out.status \in {"success", "error"}
     /\ calc.req.kind \in {"missing", "empty"} => calc.out.status = "error"
     /\ calc.out.status = "success"
          => calc.req.kind = "tree" /\ OnlyArithmetic(calc.req.tree)
     /\ (calc.req.kind = "tree" /\ ~OnlyArithmetic(calc.req.tree))
          => calc.out.status = "error"
====
